---- MODULE Spec2Model ----
(***************************************************************************)
(* State-machine model of the CARP route construction and local-search     *)
(* engine of etapa3 (algoritmo_construtivo.py, main.py).                   *)
(*                                                                         *)
(* A service is the dictionary built by extrair_servicos; a route is a     *)
(* sequence of services; rotas / demandas are the two parallel lists the   *)
(* code threads through every stage.  Python indices are 0-based, the      *)
(* sequences here are 1-based: Slice(s, a, b) is Python's s[a:b].          *)
(***************************************************************************)
EXTENDS Integers, Sequences, FiniteSets, TLC

(* ------------------------------ bounds -------------------------------- *)
\* largest catalog (number of mandatory services) explored
MaxServ == 4
\* largest GRASP pool size k explored (k_grasp ranges over 1..MaxK)
MaxK == 2
\* number of multi-start trials (num_tentativas) of a run
MaxTentativas == 2

\* longest single route handed to two_opt on its own
MaxRota == 5

(* -------------------------- program constants ------------------------- *)
\* random.seed(12345 + tentativa)
SeedBase == 12345

VARIABLES
    servicos,             \* the catalog handed to multi_start_pipeline
    servicos_obrigatorios, \* the list the coverage validations compare with
    deposito,             \* depot vertex
    matriz_distancias,    \* all-pairs distance matrix
    capacidade,           \* vehicle capacity
    k_grasp,              \* GRASP pool size
    num_tentativas,       \* number of trials
    pc,                   \* position of the run inside multi_start_pipeline
    tentativa,            \* loop variable of the trial loop
    rng,                  \* state of the global random generator: seed and draws since
    stream,               \* output of the generator, where the model fixes it
    relogio,              \* time.perf_counter_ns()
    rotas,                \* current route list of the stage that is running
    demandas,             \* per-route demand bookkeeping, parallel to rotas
    savings_disponiveis,  \* savings not yet tried by clarke_wright_grasp
    vnd_i,                \* loop variable of vnd's loop over routes
    melhor_rota,          \* two_opt's working copy of the route
    scan,                 \* two_opt's scan position <<i, j>> (0-based, next pair to test)
    melhor_custo,
    melhor_num_rotas,
    melhor_rotas,
    melhor_demandas,
    melhor_clock_encontrado,
    clock_inicio,
    clock_tentativa,
    retorno,              \* value returned by multi_start_pipeline
    historico,            \* per finished trial: validity, cost, route count, start clock
    custo_etapas,         \* total cost when construction and when vnd returned, this trial
    ultimo,               \* the step taken last
    outra,                \* another pipeline run on the worker pool: trial, draws left
    anterior,             \* what the previous call of multi_start_pipeline returned
    futuro,               \* the Future of the worker that runs processar_arquivo
    arquivo,              \* the output file of the instance, None while it does not exist
    lido,                 \* what ler_solucao returned for the output file
    principal             \* where main is: inside the with block, or returned

entradas == <<servicos, servicos_obrigatorios, deposito, matriz_distancias, capacidade,
              k_grasp, num_tentativas>>
lote == <<futuro, arquivo, lido, principal>>
incumbente == <<melhor_custo, melhor_num_rotas, melhor_rotas, melhor_demandas,
                melhor_clock_encontrado>>
twoopt == <<vnd_i, melhor_rota, scan>>
fora == <<outra, anterior, lote>>
vars == <<servicos, servicos_obrigatorios, deposito, matriz_distancias, capacidade,
          k_grasp, num_tentativas, futuro, arquivo, lido, principal,
          pc, tentativa, rng, stream, relogio, rotas, demandas, savings_disponiveis,
          vnd_i, melhor_rota, scan, melhor_custo, melhor_num_rotas, melhor_rotas,
          melhor_demandas, melhor_clock_encontrado, clock_inicio, clock_tentativa,
          retorno, historico, custo_etapas, ultimo, outra, anterior>>

(* ------------------------------ helpers ------------------------------- *)
Min(a, b) == IF a <= b THEN a ELSE b

\* Python's s[a:b] for 0 <= a, b: the elements at 0-based positions a .. b-1
Slice(s, a, b) == SubSeq(s, a + 1, Min(b, Len(s)))

\* Python's s[::-1]
Reverso(s) == [n \in 1..Len(s) |-> s[Len(s) + 1 - n]]

RECURSIVE Soma(_)
\* Python's sum(...) over a list of integers
Soma(s) == IF s = <<>> THEN 0 ELSE Head(s) + Soma(Tail(s))

\* the list of one field of every service of a route
Campo(rota, campo) == [n \in 1..Len(rota) |-> rota[n][campo]]

\* sum(serv['demanda'] for serv in rota)
DemandaReal(rota) == Soma(Campo(rota, "demanda"))

\* Python's None for an optional value, and a present value
None == <<>>
Some(x) == <<x>>

\* float('inf') of melhor_custo / melhor_num_rotas
Inf == -1
\* a < b where b may be float('inf') and a is finite
MenorQue(a, b) == b = Inf \/ a < b

(* ------------------- construction: clarke_wright_grasp ---------------- *)
\* construir_rotas_iniciais: one singleton route per service, in catalog order
construir_rotas_iniciais(servs) ==
    [rotas |-> [n \in 1..Len(servs) |-> <<servs[n]>>],
     demandas |-> [n \in 1..Len(servs) |-> servs[n].demanda]]

\* rota_custo: service costs plus depot -> first, consecutive and last -> depot legs
rota_custo(rota, matriz, dep) ==
    IF rota = <<>> THEN 0
    ELSE LET custo_servico == Soma(Campo(rota, "custo_servico"))
             destinos == Campo(rota, "destino")
             trechos == [n \in 1..(Len(destinos) - 1) |->
                            matriz[destinos[n]][destinos[n + 1]]]
             custo_transporte == matriz[dep][destinos[1]] + Soma(trechos)
                                 + matriz[destinos[Len(destinos)]][dep]
         IN  custo_servico + custo_transporte

\* sum(rota_custo(rota, ...) for rota in rotas)
CustoTotal(rs, matriz, dep) ==
    Soma([n \in 1..Len(rs) |-> rota_custo(rs[n], matriz, dep)])

\* Python's tuple order on (saving, i, j)
TuplaMaior(a, b) ==
    \/ a[1] > b[1]
    \/ a[1] = b[1] /\ a[2] > b[2]
    \/ a[1] = b[1] /\ a[2] = b[2] /\ a[3] > b[3]

RECURSIVE OrdenaDesc(_)
\* list.sort(reverse=True) of a set of pairwise different tuples
OrdenaDesc(S) ==
    IF S = {} THEN <<>>
    ELSE LET mx == CHOOSE x \in S : \A y \in S \ {x} : TuplaMaior(x, y)
         IN  <<mx>> \o OrdenaDesc(S \ {mx})

\* the saving of the pair of services at catalog positions i < j
Saving(servs, dep, matriz, i, j) ==
    matriz[dep][servs[i].destino] + matriz[dep][servs[j].destino]
    - matriz[servs[i].destino][servs[j].destino]

\* calcular_savings: every pair i < j once, sorted from the largest saving down
calcular_savings(servs, dep, matriz) ==
    OrdenaDesc({<<Saving(servs, dep, matriz, p[1], p[2]), p[1], p[2]>> :
                  p \in {q \in (1..Len(servs)) \X (1..Len(servs)) : q[1] < q[2]}})

\* a candidate list one longer than k
TopKMaisUm(savings, k) == Slice(savings, 0, k + 1)

\* savings_disponiveis[:k]
TopK(savings, k) == Slice(savings, 0, k)

\* largest element of a set of positions, 0 (None) when there is none
UltimoOuNone(S) == IF S = {} THEN 0 ELSE CHOOSE x \in S : \A y \in S : y <= x

\* idx_i: the last route whose first service has the given id
IdxPrimeiro(rs, id) ==
    UltimoOuNone({n \in 1..Len(rs) : rs[n] # <<>> /\ rs[n][1].id_servico = id})

\* idx_j: the last route whose last service has the given id
IdxUltimo(rs, id) ==
    UltimoOuNone({n \in 1..Len(rs) : rs[n] # <<>> /\ rs[n][Len(rs[n])].id_servico = id})

\* a merge guard that forgets the capacity
PodeFundirSemCapacidade(idx_i, idx_j, dems, cap) ==
    /\ idx_i # 0
    /\ idx_j # 0
    /\ idx_i # idx_j

\* the test that guards a merge
PodeFundir(idx_i, idx_j, dems, cap) ==
    /\ idx_i # 0
    /\ idx_j # 0
    /\ idx_i # idx_j
    /\ dems[idx_i] + dems[idx_j] <= cap

\* a merge that keeps route i and forgets the services of route j
FundePerdeRotaJ(rota_i, rota_j) == rota_i

\* rotas[idx_i] + rotas[idx_j]
Funde(rota_i, rota_j) == rota_i \o rota_j

\* list.remove: the list without its first element equal to x
RemovePrimeiro(s, x) ==
    LET p == CHOOSE n \in 1..Len(s) : s[n] = x /\ \A m \in 1..(n - 1) : s[m] # x
    IN  SubSeq(s, 1, p - 1) \o SubSeq(s, p + 1, Len(s))

\* a pruning that keeps every route
NaoVaziasSemPoda(rs) == rs

RECURSIVE NaoVazias(_)
\* [r for r in rotas if r]
NaoVazias(rs) ==
    IF rs = <<>> THEN <<>>
    ELSE IF Head(rs) = <<>> THEN NaoVazias(Tail(rs))
         ELSE <<Head(rs)>> \o NaoVazias(Tail(rs))

RECURSIVE ZipFiltra(_, _)
\* [d for r, d in zip(rotas, demandas) if r]: zip stops at the shorter list
ZipFiltra(rs, dems) ==
    IF rs = <<>> \/ dems = <<>> THEN <<>>
    ELSE IF Head(rs) = <<>> THEN ZipFiltra(Tail(rs), Tail(dems))
         ELSE <<Head(dems)>> \o ZipFiltra(Tail(rs), Tail(dems))

RECURSIVE Concatena(_)
\* the services of all routes, route after route
Concatena(rs) == IF rs = <<>> THEN <<>> ELSE Head(rs) \o Concatena(Tail(rs))

\* [serv['id_servico'] for rota in rotas for serv in rota]
IdsNasRotas(rs) == Campo(Concatena(rs), "id_servico")

\* set(...) of a list
Conjunto(s) == {s[n] : n \in 1..Len(s)}

\* the validation of clarke_wright_grasp: some expected id is missing or foreign
ServicosPerdidos(servs, rs) ==
    Conjunto(Campo(servs, "id_servico")) # Conjunto(IdsNasRotas(rs))

\* the validation of segment_relocate and of the driver: missing, foreign or duplicated
PerdidosOuDuplicados(servs, rs) ==
    \/ Conjunto(IdsNasRotas(rs)) # Conjunto(Campo(servs, "id_servico"))
    \/ Len(IdsNasRotas(rs)) # Cardinality(Conjunto(IdsNasRotas(rs)))

(* ----------------------------- local search -------------------------- *)
\* the order in which the nested loops visit their index tuples
TuplaAntes(a, b) ==
    \E n \in 1..Len(a) : a[n] < b[n] /\ \A m \in 1..(n - 1) : a[m] = b[m]

\* the first tuple of a non-empty set in loop order
PrimeiroMov(S) == CHOOSE x \in S : \A y \in S \ {x} : TuplaAntes(x, y)

\* an acceptance test turned round
Piora(custo_novo, custo_antigo) == custo_novo > custo_antigo

\* an acceptance test that also takes a move of equal cost
MelhoraOuEmpata(custo_novo, custo_antigo) == custo_novo <= custo_antigo

\* the acceptance test of all three operators: custo_novo < custo_antigo
Melhora(custo_novo, custo_antigo) == custo_novo < custo_antigo

\* relocate: rotas[i][:idx] + rotas[i][idx+1:], idx counted from 1 here
RelocateNovaOrigem(rota_i, idx) ==
    Slice(rota_i, 0, idx - 1) \o Slice(rota_i, idx, Len(rota_i))

\* a relocation that takes the service out and never puts it in the target
RelocateNovaDestinoSemServ(rota_j, serv) == rota_j

\* relocate: rotas[j] + [serv]
RelocateNovaDestino(rota_j, serv) == rota_j \o <<serv>>

\* relocate's capacity test, on the bookkeeping list
RelocateCabe(dems, j, serv, cap) == dems[j] + serv.demanda <= cap

\* an acceptance rule that only looks at targets that come after the source
RelocateAceitaSoAdiante(rs, dems, cap, matriz, dep, i, j, idx) ==
    /\ i < j
    /\ rs[i] # <<>>
    /\ RelocateCabe(dems, j, rs[i][idx], cap)
    /\ RelocateNovaOrigem(rs[i], idx) # <<>>
    /\ Melhora(rota_custo(RelocateNovaOrigem(rs[i], idx), matriz, dep)
                 + rota_custo(RelocateNovaDestino(rs[j], rs[i][idx]), matriz, dep),
               rota_custo(rs[i], matriz, dep) + rota_custo(rs[j], matriz, dep))

\* an acceptance rule that lets the source route give away its last service
RelocateAceitaEsvazia(rs, dems, cap, matriz, dep, i, j, idx) ==
    /\ i # j
    /\ rs[i] # <<>>
    /\ RelocateCabe(dems, j, rs[i][idx], cap)
    /\ Melhora(rota_custo(RelocateNovaOrigem(rs[i], idx), matriz, dep)
                 + rota_custo(RelocateNovaDestino(rs[j], rs[i][idx]), matriz, dep),
               rota_custo(rs[i], matriz, dep) + rota_custo(rs[j], matriz, dep))

\* relocate: the move of service idx of route i to the end of route j is accepted
RelocateAceita(rs, dems, cap, matriz, dep, i, j, idx) ==
    /\ i # j
    /\ rs[i] # <<>>
    /\ RelocateCabe(dems, j, rs[i][idx], cap)
    /\ RelocateNovaOrigem(rs[i], idx) # <<>>
    /\ Melhora(rota_custo(RelocateNovaOrigem(rs[i], idx), matriz, dep)
                 + rota_custo(RelocateNovaDestino(rs[j], rs[i][idx]), matriz, dep),
               rota_custo(rs[i], matriz, dep) + rota_custo(rs[j], matriz, dep))

\* relocate: the moves <<i, j, idx>> one scan would accept
RelocateMovs(rs, dems, cap, matriz, dep) ==
    {m \in UNION {{<<i, j, idx>> : j \in 1..Len(rs), idx \in 1..Len(rs[i])} :
                    i \in 1..Len(rs)} :
        RelocateAceita(rs, dems, cap, matriz, dep, m[1], m[2], m[3])}

\* two_opt: melhor_rota[:i] + melhor_rota[i:j][::-1] + melhor_rota[j:]
Reversao(rota, i, j) ==
    Slice(rota, 0, i) \o Reverso(Slice(rota, i, j)) \o Slice(rota, j, Len(rota))

\* two_opt: the pairs <<i, j>> of range(1, len-1) x range(i+1, len)
TwoOptPares(rota) ==
    {p \in (1..(Len(rota) - 2)) \X (2..(Len(rota) - 1)) : p[1] < p[2]}

\* a scan without the early return that also tries the blocks starting at the
\* head of the route and ending at its tail
TwoOptMovsSemRetorno(rota, pos, matriz, dep) ==
    {p \in (0..(Len(rota) - 1)) \X (1..Len(rota)) :
        /\ p[1] < p[2]
        /\ Melhora(rota_custo(Reversao(rota, p[1], p[2]), matriz, dep),
                   rota_custo(rota, matriz, dep))}

\* two_opt: nothing for a route of fewer than 3 services (the early return);
\* otherwise the pairs not yet passed by the scan whose reversal lowers the cost
TwoOptMovs(rota, pos, matriz, dep) ==
    IF Len(rota) < 3 THEN {}
    ELSE {p \in TwoOptPares(rota) :
             /\ p = pos \/ TuplaAntes(pos, p)
             /\ Melhora(rota_custo(Reversao(rota, p[1], p[2]), matriz, dep),
                        rota_custo(rota, matriz, dep))}

\* segment_relocate: rota_origem[start:end]
Bloco(rota_origem, start, end) == Slice(rota_origem, start, end)

\* segment_relocate: rota_origem[:start] + rota_origem[end:]
SegmentNovaOrigem(rota_origem, start, end) ==
    Slice(rota_origem, 0, start) \o Slice(rota_origem, end, Len(rota_origem))

\* segment_relocate: rota_destino + bloco
SegmentNovaDestino(rota_destino, bloco) == rota_destino \o bloco

\* an acceptance rule without the two guards on the source route: the whole route
\* may go
SegmentAceitaRotaInteira(rs, dems, cap, matriz, dep, i, j, start, end) ==
    /\ i # j
    /\ rs[i] # <<>>
    /\ rs[j] # <<>>
    /\ Bloco(rs[i], start, end) # <<>>
    /\ ~(dems[j] + DemandaReal(Bloco(rs[i], start, end)) > cap)
    /\ Melhora(rota_custo(SegmentNovaOrigem(rs[i], start, end), matriz, dep)
                 + rota_custo(SegmentNovaDestino(rs[j], Bloco(rs[i], start, end)),
                              matriz, dep),
               rota_custo(rs[i], matriz, dep) + rota_custo(rs[j], matriz, dep))

\* segment_relocate: the move of block [start, end) of route i to route j is accepted
SegmentAceita(rs, dems, cap, matriz, dep, i, j, start, end) ==
    /\ i # j
    /\ rs[i] # <<>>
    /\ rs[j] # <<>>
    /\ Bloco(rs[i], start, end) # <<>>
    /\ Len(Bloco(rs[i], start, end)) # Len(rs[i])
    /\ ~(dems[j] + DemandaReal(Bloco(rs[i], start, end)) > cap)
    /\ SegmentNovaOrigem(rs[i], start, end) # <<>>
    /\ Melhora(rota_custo(SegmentNovaOrigem(rs[i], start, end), matriz, dep)
                 + rota_custo(SegmentNovaDestino(rs[j], Bloco(rs[i], start, end)),
                              matriz, dep),
               rota_custo(rs[i], matriz, dep) + rota_custo(rs[j], matriz, dep))

\* segment_relocate: the moves <<i, j, start, end>> one scan would accept
SegmentMovs(rs, dems, cap, matriz, dep) ==
    {m \in UNION {{<<i, j, st, en>> : j \in 1..Len(rs), st \in 0..(Len(rs[i]) - 1),
                                      en \in 1..Len(rs[i])} : i \in 1..Len(rs)} :
        /\ m[3] < m[4]
        /\ SegmentAceita(rs, dems, cap, matriz, dep, m[1], m[2], m[3], m[4])}

(* --------------------------- random generator ------------------------- *)
\* random.seed(s): the generator restarts the sequence of seed s
Seed(s) == [seed |-> s, pos |-> 0]

\* a seed taken from the clock instead of the trial index
SementeDoRelogio(t) == SeedBase + (relogio % (MaxTentativas + 1))

\* the argument of random.seed in trial t
SementeDaTentativa(t) == SeedBase + t

\* the index random.choice can pick in a list of n elements: the generator's
\* next output where the model fixes it, any index where it does not
Sorteio(n) ==
    IF <<rng.seed, rng.pos>> \in DOMAIN stream
    THEN {stream[<<rng.seed, rng.pos>>] % n}
    ELSE 0..(n - 1)

\* the seeds a run can give the generator
Sementes == SeedBase..(SeedBase + MaxTentativas)

\* how far into one seed's sequence the runs can get
Posicoes == 0..(MaxServ * MaxServ)

\* a generator: the raw output at every position of the sequence of every seed
Gerador(a, b) ==
    [sp \in Sementes \X Posicoes |->
        (a * sp[1] + b * sp[2] + (sp[2] \div 2)) % (MaxK + 1)]

\* the generators explored where the output of random is fixed
Geradores == {Gerador(a, b) : a \in 0..2, b \in 0..2}

(* ------------------------------ instances ----------------------------- *)
\* vertices 0 .. n, the depot is vertex 0
Vertices(n) == 0..n

\* shortest paths of the path graph 0 - 1 - ... - n with unit edges
MatrizLinha(n) == [u \in Vertices(n) |-> [v \in Vertices(n) |->
                      IF u <= v THEN v - u ELSE u - v]]

\* shortest paths of the one-way ring 0 -> 1 -> ... -> n -> 0 with unit arcs
MatrizAnel(n) == [u \in Vertices(n) |-> [v \in Vertices(n) |-> (v - u) % (n + 1)]]

\* shortest paths of the two-way cycle 0 - 1 - ... - n - 0 with unit edges
MatrizCiclo(n) == [u \in Vertices(n) |-> [v \in Vertices(n) |->
                      Min((v - u) % (n + 1), (u - v) % (n + 1))]]

\* the matrices criar_matriz_distancias yields for the path and the one-way ring
Matrizes(n) == {MatrizLinha(n), MatrizAnel(n)}

\* every order in which the services of a catalog can stand in one route
Permutacoes(servs) ==
    {[n \in 1..Len(servs) |-> servs[f[n]]] :
        f \in {g \in [1..Len(servs) -> 1..Len(servs)] :
                  \A a, b \in 1..Len(servs) : a # b => g[a] # g[b]}}

\* the record extrair_servicos builds for a required vertex
Servico(id, no, dem) ==
    [id_servico |-> id, origem |-> no, destino |-> no, demanda |-> dem,
     custo_servico |-> id % 2]

\* catalogs of n services with ids 1..n: service i sits on vertex i and asks for
\* 3 + (i-1+q) mod 3 units, so the demands run 3,4,5,3,.. from some starting point
Catalogos(n) ==
    {[i \in 1..n |-> Servico(i, i, 3 + ((i - 1 + q) % 3))] : q \in 0..2}

\* vehicle capacities: 8 holds two services at most (never 4 with 5), 16 up to four
Capacidades == {8, 16}

(* ------------------------- multi_start_pipeline ------------------------ *)
\* the pipeline is looked at on its own: the worker is running, nothing written or read
SemLote ==
    /\ futuro = "executando"
    /\ arquivo = None
    /\ lido = None
    /\ principal = "with"

\* no other run on the pool: single-threaded execution
OutraAusente == [tentativa |-> MaxTentativas, restantes |-> 0, pares |-> 0]

\* the state at the head of the trial loop of a fresh call at clock value agora
EntradaPipeline(agora) ==
    /\ pc = "inicio"
    /\ tentativa = 0
    /\ clock_inicio = agora
    /\ relogio = agora + 1
    /\ melhor_custo = Inf
    /\ melhor_num_rotas = Inf
    /\ melhor_rotas = None
    /\ melhor_demandas = None
    /\ melhor_clock_encontrado = None
    /\ clock_tentativa = None
    /\ rotas = <<>>
    /\ demandas = <<>>
    /\ savings_disponiveis = <<>>
    /\ vnd_i = 0
    /\ melhor_rota = <<>>
    /\ scan = <<1, 2>>
    /\ retorno = None
    /\ historico = <<>>
    /\ custo_etapas = None
    /\ ultimo = "entrada"

Init ==
    /\ \E n \in 1..MaxServ :
          /\ servicos \in Catalogos(n)
          /\ matriz_distancias \in Matrizes(n)
    /\ servicos_obrigatorios = servicos
    /\ deposito = 0
    /\ capacidade \in Capacidades
    /\ k_grasp \in 1..MaxK
    /\ num_tentativas = MaxTentativas
    /\ rng = Seed(0)
    /\ stream = <<>>
    /\ outra = OutraAusente
    /\ anterior = None
    /\ SemLote
    /\ EntradaPipeline(1)

\* a trial that builds its singleton routes inside the lists the incumbent holds
IniciaTentativaNoIncumbente ==
    /\ ultimo' = "IniciaTentativa"
    /\ pc = "inicio"
    /\ tentativa < num_tentativas
    /\ clock_tentativa' = Some(relogio)
    /\ relogio' = relogio + 1
    /\ rng' = Seed(SementeDaTentativa(tentativa))
    /\ rotas' = construir_rotas_iniciais(servicos).rotas
    /\ demandas' = construir_rotas_iniciais(servicos).demandas
    /\ savings_disponiveis' = calcular_savings(servicos, deposito, matriz_distancias)
    /\ pc' = "cw"
    /\ custo_etapas' = None
    /\ melhor_rotas' = IF melhor_rotas = None THEN None
                       ELSE Some(construir_rotas_iniciais(servicos).rotas)
    /\ melhor_demandas' = IF melhor_demandas = None THEN None
                          ELSE Some(construir_rotas_iniciais(servicos).demandas)
    /\ UNCHANGED <<entradas, fora, tentativa, stream, twoopt, melhor_custo,
                   melhor_num_rotas, melhor_clock_encontrado, clock_inicio, retorno,
                   historico>>

\* for tentativa in range(num_tentativas): seed, then clarke_wright_grasp up to its loop
IniciaTentativa ==
    /\ ultimo' = "IniciaTentativa"
    /\ pc = "inicio"
    /\ tentativa < num_tentativas
    /\ clock_tentativa' = Some(relogio)
    /\ relogio' = relogio + 1
    /\ rng' = Seed(SementeDaTentativa(tentativa))
    /\ rotas' = construir_rotas_iniciais(servicos).rotas
    /\ demandas' = construir_rotas_iniciais(servicos).demandas
    /\ savings_disponiveis' = calcular_savings(servicos, deposito, matriz_distancias)
    /\ pc' = "cw"
    /\ custo_etapas' = None
    /\ UNCHANGED <<entradas, fora, tentativa, stream, twoopt, incumbente, clock_inicio,
                   retorno, historico>>

\* one iteration of clarke_wright_grasp's while loop
CWPasso ==
    /\ ultimo' = "CWPasso"
    /\ pc = "cw"
    /\ savings_disponiveis # <<>>
    /\ \E c \in Sorteio(Len(TopK(savings_disponiveis, k_grasp))) :
          LET saving_escolhido == TopK(savings_disponiveis, k_grasp)[c + 1]
              idx_i == IdxPrimeiro(rotas, servicos[saving_escolhido[2]].id_servico)
              idx_j == IdxUltimo(rotas, servicos[saving_escolhido[3]].id_servico)
          IN  /\ IF PodeFundir(idx_i, idx_j, demandas, capacidade)
                 THEN /\ rotas' = [rotas EXCEPT ![idx_i] = Funde(rotas[idx_i], rotas[idx_j]),
                                                ![idx_j] = <<>>]
                      /\ demandas' = [demandas EXCEPT
                                         ![idx_i] = demandas[idx_i] + demandas[idx_j],
                                         ![idx_j] = 0]
                 ELSE UNCHANGED <<rotas, demandas>>
              /\ savings_disponiveis' = RemovePrimeiro(savings_disponiveis, saving_escolhido)
    /\ rng' = [rng EXCEPT !.pos = @ + 1]
    /\ UNCHANGED <<entradas, fora, custo_etapas, pc, tentativa, stream, relogio, twoopt,
                   incumbente, clock_inicio, clock_tentativa, retorno, historico>>

\* the end of clarke_wright_grasp: prune, coverage check, return into vnd's relocate
CWFim ==
    /\ ultimo' = "CWFim"
    /\ pc = "cw"
    /\ savings_disponiveis = <<>>
    /\ rotas' = NaoVazias(rotas)
    /\ demandas' = ZipFiltra(NaoVazias(rotas), demandas)
    /\ pc' = IF ServicosPerdidos(servicos, NaoVazias(rotas)) THEN "erro_cw" ELSE "relocate"
    /\ custo_etapas' = Some([construcao |->
                                CustoTotal(NaoVazias(rotas), matriz_distancias, deposito)])
    /\ UNCHANGED <<entradas, fora, tentativa, rng, stream, relogio, savings_disponiveis,
                   twoopt, incumbente, clock_inicio, clock_tentativa, retorno,
                   historico>>

\* one pass of relocate's while loop that finds an improving move and applies it
RelocateMove ==
    /\ ultimo' = "RelocateMove"
    /\ pc = "relocate"
    /\ RelocateMovs(rotas, demandas, capacidade, matriz_distancias, deposito) # {}
    /\ \E m \in {PrimeiroMov(RelocateMovs(rotas, demandas, capacidade,
                                           matriz_distancias, deposito))} :
          LET i == m[1]
              j == m[2]
              serv == rotas[m[1]][m[3]]
          IN  /\ rotas' = [rotas EXCEPT ![i] = RelocateNovaOrigem(rotas[i], m[3]),
                                        ![j] = RelocateNovaDestino(rotas[j], serv)]
              /\ demandas' = [demandas EXCEPT ![i] = demandas[i] - serv.demanda,
                                              ![j] = demandas[j] + serv.demanda]
    /\ UNCHANGED <<entradas, fora, custo_etapas, pc, tentativa, rng, stream, relogio,
                   savings_disponiveis, twoopt, incumbente, clock_inicio,
                   clock_tentativa, retorno, historico>>

\* the last pass of relocate (no move), its pruning and return; vnd enters two_opt
\* on the first route
RelocateFim ==
    /\ ultimo' = "RelocateFim"
    /\ pc = "relocate"
    /\ RelocateMovs(rotas, demandas, capacidade, matriz_distancias, deposito) = {}
    /\ rotas' = NaoVazias(rotas)
    /\ demandas' = ZipFiltra(NaoVazias(rotas), demandas)
    /\ IF NaoVazias(rotas) = <<>>
       THEN /\ pc' = "segment"
            /\ custo_etapas' = Some([construcao |-> custo_etapas[1].construcao, vnd |-> 0])
            /\ UNCHANGED twoopt
       ELSE /\ pc' = "two_opt"
            /\ vnd_i' = 1
            /\ melhor_rota' = NaoVazias(rotas)[1]
            /\ scan' = <<1, 2>>
            /\ UNCHANGED custo_etapas
    /\ UNCHANGED <<entradas, fora, tentativa, rng, stream, relogio, savings_disponiveis,
                   incumbente, clock_inicio, clock_tentativa, retorno, historico>>

\* two_opt: the scan reaches the next pair whose reversal lowers the cost, and applies it
TwoOptMove ==
    /\ ultimo' = "TwoOptMove"
    /\ pc = "two_opt"
    /\ TwoOptMovs(melhor_rota, scan, matriz_distancias, deposito) # {}
    /\ \E p \in {PrimeiroMov(TwoOptMovs(melhor_rota, scan, matriz_distancias, deposito))} :
          /\ melhor_rota' = Reversao(melhor_rota, p[1], p[2])
          /\ scan' = <<p[1], p[2] + 1>>
    /\ UNCHANGED <<entradas, fora, custo_etapas, pc, tentativa, rng, stream, relogio,
                   rotas, demandas, savings_disponiveis, vnd_i, incumbente,
                   clock_inicio, clock_tentativa, retorno, historico>>

\* two_opt returns (short route, or the scan is over) and vnd moves to the next route
TwoOptRetorna ==
    /\ ultimo' = "TwoOptRetorna"
    /\ pc = "two_opt"
    /\ TwoOptMovs(melhor_rota, scan, matriz_distancias, deposito) = {}
    /\ rotas' = [rotas EXCEPT ![vnd_i] = melhor_rota]
    /\ IF vnd_i < Len(rotas)
       THEN /\ vnd_i' = vnd_i + 1
            /\ melhor_rota' = rotas[vnd_i + 1]
            /\ scan' = <<1, 2>>
            /\ pc' = "two_opt"
            /\ UNCHANGED custo_etapas
       ELSE /\ vnd_i' = 0
            /\ melhor_rota' = <<>>
            /\ scan' = <<1, 2>>
            /\ pc' = "segment"
            /\ custo_etapas' =
                   Some([construcao |-> custo_etapas[1].construcao,
                         vnd |-> CustoTotal([rotas EXCEPT ![vnd_i] = melhor_rota],
                                            matriz_distancias, deposito)])
    /\ UNCHANGED <<entradas, fora, tentativa, rng, stream, relogio, demandas,
                   savings_disponiveis, incumbente, clock_inicio, clock_tentativa,
                   retorno, historico>>

\* one pass of segment_relocate's while loop that applies a move, then prunes
SegmentMove ==
    /\ ultimo' = "SegmentMove"
    /\ pc = "segment"
    /\ SegmentMovs(rotas, demandas, capacidade, matriz_distancias, deposito) # {}
    /\ \E m \in {PrimeiroMov(SegmentMovs(rotas, demandas, capacidade,
                                          matriz_distancias, deposito))} :
          LET i == m[1]
              j == m[2]
              nova_rota_origem == SegmentNovaOrigem(rotas[m[1]], m[3], m[4])
              nova_rota_destino ==
                  SegmentNovaDestino(rotas[m[2]], Bloco(rotas[m[1]], m[3], m[4]))
              rs == [rotas EXCEPT ![i] = nova_rota_origem, ![j] = nova_rota_destino]
              ds == [demandas EXCEPT ![i] = DemandaReal(nova_rota_origem),
                                     ![j] = DemandaReal(nova_rota_destino)]
          IN  /\ rotas' = NaoVazias(rs)
              /\ demandas' = ZipFiltra(rs, ds)
    /\ UNCHANGED <<entradas, fora, custo_etapas, pc, tentativa, rng, stream, relogio,
                   savings_disponiveis, twoopt, incumbente, clock_inicio,
                   clock_tentativa, retorno, historico>>

\* the last pass of segment_relocate (no move), its pruning, coverage check and return
SegmentFim ==
    /\ ultimo' = "SegmentFim"
    /\ pc = "segment"
    /\ SegmentMovs(rotas, demandas, capacidade, matriz_distancias, deposito) = {}
    /\ rotas' = NaoVazias(rotas)
    /\ demandas' = ZipFiltra(rotas, demandas)
    /\ pc' = IF PerdidosOuDuplicados(servicos_obrigatorios, NaoVazias(rotas))
             THEN "erro_segment" ELSE "avalia"
    /\ UNCHANGED <<entradas, fora, custo_etapas, tentativa, rng, stream, relogio,
                   savings_disponiveis, twoopt, incumbente, clock_inicio,
                   clock_tentativa, retorno, historico>>

\* a selection rule that also takes a trial of equal cost and equal route count
SubstituiNoEmpate(custo_total, num_rotas, m_custo, m_num_rotas) ==
    \/ MenorQue(custo_total, m_custo)
    \/ custo_total = m_custo /\ (MenorQue(num_rotas, m_num_rotas) \/ num_rotas = m_num_rotas)

\* the driver's selection rule: lower cost, or the same cost with fewer routes
SubstituiIncumbente(custo_total, num_rotas, m_custo, m_num_rotas) ==
    \/ MenorQue(custo_total, m_custo)
    \/ custo_total = m_custo /\ MenorQue(num_rotas, m_num_rotas)

\* steps 4 to 6 of a trial: cost, validation, update of the incumbent
Avalia ==
    /\ ultimo' = "Avalia"
    /\ pc = "avalia"
    /\ LET custo_total == CustoTotal(rotas, matriz_distancias, deposito)
           num_rotas == Len(rotas)
           invalida == PerdidosOuDuplicados(servicos_obrigatorios, rotas)
       IN  /\ historico' = Append(historico, [valida |-> ~invalida, custo |-> custo_total,
                                              num_rotas |-> num_rotas,
                                              clock |-> clock_tentativa[1]])
           /\ IF ~invalida /\ SubstituiIncumbente(custo_total, num_rotas,
                                                  melhor_custo, melhor_num_rotas)
              THEN /\ melhor_custo' = custo_total
                   /\ melhor_num_rotas' = num_rotas
                   /\ melhor_rotas' = Some(rotas)
                   /\ melhor_demandas' = Some(demandas)
                   /\ melhor_clock_encontrado' = clock_tentativa
              ELSE UNCHANGED incumbente
    /\ tentativa' = tentativa + 1
    /\ pc' = "inicio"
    /\ UNCHANGED <<entradas, fora, custo_etapas, rng, stream, relogio, rotas, demandas,
                   savings_disponiveis, twoopt, clock_inicio, clock_tentativa, retorno>>

\* after the loop: clock_fim, the two offsets (freq_hz = None) and the return value
Finaliza ==
    /\ ultimo' = "Finaliza"
    /\ pc = "inicio"
    /\ tentativa >= num_tentativas
    /\ relogio' = relogio + 1
    /\ retorno' = Some([melhor_rotas |-> melhor_rotas,
                        melhor_demandas |-> melhor_demandas,
                        clock_total_ciclos |-> relogio - clock_inicio,
                        melhor_clock_encontrado_ciclos |->
                            IF melhor_clock_encontrado # None
                               /\ melhor_clock_encontrado[1] # 0
                            THEN melhor_clock_encontrado[1] - clock_inicio
                            ELSE -1])
    /\ pc' = "fim"
    /\ UNCHANGED <<entradas, fora, custo_etapas, tentativa, rng, stream, rotas,
                   demandas, savings_disponiveis, twoopt, incumbente, clock_inicio,
                   clock_tentativa, historico>>

Next ==
    \/ IniciaTentativa
    \/ CWPasso
    \/ CWFim
    \/ RelocateMove
    \/ RelocateFim
    \/ TwoOptMove
    \/ TwoOptRetorna
    \/ SegmentMove
    \/ SegmentFim
    \/ Avalia
    \/ Finaliza

Spec == Init /\ [][Next]_vars

(* ----------------------- two calls, one after the other ---------------- *)
\* the generator as an earlier user of the random module may have left it
RngDeixado == {Seed(0), [seed |-> SeedBase, pos |-> 3]}

\* the clock values at which the first call may start
ClocksIniciais == {1, 4}

InitDet ==
    /\ \E n \in 1..MaxServ :
          /\ servicos \in Catalogos(n)
          /\ matriz_distancias \in Matrizes(n)
    /\ servicos_obrigatorios = servicos
    /\ deposito = 0
    /\ capacidade \in Capacidades
    /\ k_grasp \in 1..MaxK
    /\ num_tentativas = MaxTentativas
    /\ rng \in RngDeixado
    /\ stream \in Geradores
    /\ outra = OutraAusente
    /\ anterior = None
    /\ SemLote
    /\ \E agora \in ClocksIniciais : EntradaPipeline(agora)

\* multi_start_pipeline is called again with the same arguments: the generator and the
\* clock are where the first call left them
NovaExecucao ==
    /\ ultimo' = "NovaExecucao"
    /\ pc = "fim"
    /\ anterior = None
    /\ anterior' = Some([melhor_rotas |-> melhor_rotas, melhor_custo |-> melhor_custo,
                         melhor_num_rotas |-> melhor_num_rotas])
    /\ pc' = "inicio"
    /\ tentativa' = 0
    /\ clock_inicio' = relogio
    /\ relogio' = relogio + 1
    /\ melhor_custo' = Inf
    /\ melhor_num_rotas' = Inf
    /\ melhor_rotas' = None
    /\ melhor_demandas' = None
    /\ melhor_clock_encontrado' = None
    /\ clock_tentativa' = None
    /\ rotas' = <<>>
    /\ demandas' = <<>>
    /\ savings_disponiveis' = <<>>
    /\ retorno' = None
    /\ historico' = <<>>
    /\ custo_etapas' = None
    /\ UNCHANGED <<entradas, outra, lote, rng, stream, twoopt>>

NextDet ==
    \/ Next
    \/ NovaExecucao

SpecDet == InitDet /\ [][NextDet]_vars

(* ------------------- two runs on the worker pool ----------------------- *)
\* the number of savings pairs of the instance the other run works on (2 or 3 services)
ParesDaOutra == {1, 3}

InitConc ==
    /\ \E n \in 1..MaxServ :
          /\ servicos \in Catalogos(n)
          /\ matriz_distancias \in Matrizes(n)
    /\ servicos_obrigatorios = servicos
    /\ deposito = 0
    /\ capacidade \in Capacidades
    /\ k_grasp \in 1..MaxK
    /\ num_tentativas = MaxTentativas
    /\ rng = Seed(0)
    /\ stream \in Geradores
    /\ \E m \in ParesDaOutra : outra = [tentativa |-> 0, restantes |-> 0, pares |-> m]
    /\ anterior = None
    /\ SemLote
    /\ EntradaPipeline(1)

\* the other run starts a trial: random.seed(12345 + tentativa) on the shared module
OutraSemeia ==
    /\ outra.tentativa < num_tentativas
    /\ outra.restantes = 0
    /\ rng' = Seed(SementeDaTentativa(outra.tentativa))
    /\ outra' = [outra EXCEPT !.tentativa = @ + 1, !.restantes = outra.pares]
    /\ UNCHANGED <<entradas, anterior, lote, pc, tentativa, stream, relogio, rotas, demandas,
                   savings_disponiveis, twoopt, incumbente, clock_inicio,
                   clock_tentativa, retorno, historico, custo_etapas, ultimo>>

\* the other run's clarke_wright_grasp draws: random.choice on the shared module
OutraSorteia ==
    /\ outra.restantes > 0
    /\ rng' = [rng EXCEPT !.pos = @ + 1]
    /\ outra' = [outra EXCEPT !.restantes = @ - 1]
    /\ UNCHANGED <<entradas, anterior, lote, pc, tentativa, stream, relogio, rotas, demandas,
                   savings_disponiveis, twoopt, incumbente, clock_inicio,
                   clock_tentativa, retorno, historico, custo_etapas, ultimo>>

NextConc ==
    \/ Next
    \/ OutraSemeia
    \/ OutraSorteia

SpecConc == InitConc /\ [][NextConc]_vars

(* --------------------------- two_opt on its own ------------------------ *)
\* the matrices of the path, the one-way ring and the two-way cycle
MatrizesTwoOpt(n) == {MatrizLinha(n), MatrizAnel(n), MatrizCiclo(n)}

\* vnd is about to call two_opt on the only route of a solution over the catalog
ChamadaTwoOpt ==
    /\ servicos_obrigatorios = servicos
    /\ deposito = 0
    /\ \E rota \in Permutacoes(servicos) : rotas = <<rota>>
    /\ demandas = <<DemandaReal(rotas[1])>>
    /\ capacidade = demandas[1]
    /\ k_grasp = 1
    /\ num_tentativas = 1
    /\ pc = "two_opt"
    /\ tentativa = 0
    /\ rng = [seed |-> SementeDaTentativa(0), pos |-> 0]
    /\ stream = <<>>
    /\ relogio = 3
    /\ clock_inicio = 1
    /\ clock_tentativa = Some(2)
    /\ savings_disponiveis = <<>>
    /\ vnd_i = 1
    /\ melhor_rota = rotas[1]
    /\ scan = <<1, 2>>
    /\ melhor_custo = Inf
    /\ melhor_num_rotas = Inf
    /\ melhor_rotas = None
    /\ melhor_demandas = None
    /\ melhor_clock_encontrado = None
    /\ retorno = None
    /\ historico = <<>>
    /\ custo_etapas = Some([construcao |-> CustoTotal(rotas, matriz_distancias, deposito)])
    /\ ultimo = "RelocateFim"
    /\ outra = OutraAusente
    /\ anterior = None
    /\ SemLote

InitTwoOpt ==
    /\ \E n \in 0..MaxRota :
          /\ servicos \in Catalogos(n)
          /\ matriz_distancias \in MatrizesTwoOpt(n)
    /\ ChamadaTwoOpt

NextTwoOpt ==
    \/ TwoOptMove
    \/ TwoOptRetorna

SpecTwoOpt == InitTwoOpt /\ [][NextTwoOpt]_vars

(* ---------------- route cost with edge and arc services ---------------- *)
\* the record extrair_servicos builds for a required edge or arc
ServicoAresta(id, de, para, dem) ==
    [id_servico |-> id, origem |-> de, destino |-> para, demanda |-> dem,
     custo_servico |-> id % 2]

\* catalogs of n services that mix required vertices with required edges: an edge
\* service i goes from vertex i to the next vertex round the catalog
CatalogosMistos(n) ==
    {[i \in 1..n |-> IF (i + q) % 2 = 0
                        THEN Servico(i, i, 3)
                        ELSE ServicoAresta(i, i, (i % n) + 1, 3)] : q \in 0..1}

InitCusto ==
    /\ \E n \in 0..MaxRota :
          /\ servicos \in CatalogosMistos(n)
          /\ matriz_distancias \in MatrizesTwoOpt(n)
    /\ ChamadaTwoOpt

SpecCusto == InitCusto /\ [][NextTwoOpt]_vars

(* ------------------------ segment_relocate alone ----------------------- *)
\* the pipeline is about to call segment_relocate on two routes that share the
\* services of the catalog between them, in any order and with any split
InitSegment ==
    /\ \E n \in 2..MaxServ :
          /\ servicos \in Catalogos(n)
          /\ matriz_distancias \in MatrizesTwoOpt(n)
          /\ \E ordem \in Permutacoes(servicos) : \E corte \in 1..(n - 1) :
                rotas = <<Slice(ordem, 0, corte), Slice(ordem, corte, n)>>
    /\ servicos_obrigatorios = servicos
    /\ deposito = 0
    /\ demandas = [r \in 1..Len(rotas) |-> DemandaReal(rotas[r])]
    /\ capacidade \in Capacidades
    /\ \A r \in 1..Len(rotas) : demandas[r] <= capacidade
    /\ k_grasp = 1
    /\ num_tentativas = 1
    /\ pc = "segment"
    /\ tentativa = 0
    /\ rng = [seed |-> SementeDaTentativa(0), pos |-> 0]
    /\ stream = <<>>
    /\ relogio = 3
    /\ clock_inicio = 1
    /\ clock_tentativa = Some(2)
    /\ savings_disponiveis = <<>>
    /\ vnd_i = 0
    /\ melhor_rota = <<>>
    /\ scan = <<1, 2>>
    /\ melhor_custo = Inf
    /\ melhor_num_rotas = Inf
    /\ melhor_rotas = None
    /\ melhor_demandas = None
    /\ melhor_clock_encontrado = None
    /\ retorno = None
    /\ historico = <<>>
    /\ custo_etapas = Some([construcao |-> CustoTotal(rotas, matriz_distancias, deposito),
                            vnd |-> CustoTotal(rotas, matriz_distancias, deposito)])
    /\ ultimo = "TwoOptRetorna"
    /\ outra = OutraAusente
    /\ anterior = None
    /\ SemLote

NextSegment ==
    \/ SegmentMove
    \/ SegmentFim

SpecSegment == InitSegment /\ [][NextSegment]_vars

(* ------------------------- local search alone ------------------------- *)
\* vnd is about to call relocate on a route set that shares the services of the
\* catalog (demands 3, 4, 5, 3, ..) between one, two or three routes, in any order,
\* within the capacity, on the one-way ring or the two-way cycle
InitBusca ==
    /\ \E n \in 1..MaxServ :
          /\ servicos \in {c \in Catalogos(n) : c[1].demanda = 3}
          /\ matriz_distancias \in {MatrizAnel(n), MatrizCiclo(n)}
          /\ \E ordem \in Permutacoes(servicos) : \E c1 \in 1..n : \E c2 \in c1..n :
                rotas = NaoVazias(<<Slice(ordem, 0, c1), Slice(ordem, c1, c2),
                                    Slice(ordem, c2, n)>>)
    /\ servicos_obrigatorios = servicos
    /\ deposito = 0
    /\ demandas = [r \in 1..Len(rotas) |-> DemandaReal(rotas[r])]
    /\ capacidade \in Capacidades
    /\ \A r \in 1..Len(rotas) : demandas[r] <= capacidade
    /\ k_grasp = 1
    /\ num_tentativas = 1
    /\ pc = "relocate"
    /\ tentativa = 0
    /\ rng = [seed |-> SementeDaTentativa(0), pos |-> 0]
    /\ stream = <<>>
    /\ relogio = 3
    /\ clock_inicio = 1
    /\ clock_tentativa = Some(2)
    /\ savings_disponiveis = <<>>
    /\ vnd_i = 0
    /\ melhor_rota = <<>>
    /\ scan = <<1, 2>>
    /\ melhor_custo = Inf
    /\ melhor_num_rotas = Inf
    /\ melhor_rotas = None
    /\ melhor_demandas = None
    /\ melhor_clock_encontrado = None
    /\ retorno = None
    /\ historico = <<>>
    /\ custo_etapas = Some([construcao |-> CustoTotal(rotas, matriz_distancias, deposito)])
    /\ ultimo = "CWFim"
    /\ outra = OutraAusente
    /\ anterior = None
    /\ SemLote

NextBusca ==
    \/ RelocateMove
    \/ RelocateFim
    \/ TwoOptMove
    \/ TwoOptRetorna
    \/ SegmentMove
    \/ SegmentFim

\* the loops are straight-line code: a step that can be taken is taken
SpecBusca == InitBusca /\ [][NextBusca]_vars /\ WF_vars(NextBusca)

(* ------------------------- the solution file -------------------------- *)
\* A line of text is a sequence of symbols: a decimal numeral is one symbol (its
\* digits), every other character is a symbol of its own.

\* the largest number read back from a file
MaxNumeral == 99

\* f"{n}": the decimal numeral of an integer
Numeral(n) == ToString(n)

\* float(texto), int(texto): the number a decimal numeral stands for
ValorDe(texto) == CHOOSE n \in 0..MaxNumeral : Numeral(n) = texto

\* a filter that keeps every occurrence
UnicosComRepetidos(rota, vistos) == rota

RECURSIVE Unicos(_, _)
\* salvar_solucao: the services of a route whose id was not met earlier in the route
Unicos(rota, vistos) ==
    IF rota = <<>> THEN <<>>
    ELSE IF Head(rota).id_servico \in vistos THEN Unicos(Tail(rota), vistos)
         ELSE <<Head(rota)>> \o Unicos(Tail(rota), vistos \cup {Head(rota).id_servico})

\* " (D deposito,1,1)"
TextoDeposito(dep) ==
    <<" ", "(", "D", " ", Numeral(dep), ",", Numeral(1), ",", Numeral(1), ")">>

\* " (S id,origem,destino)"
TextoServico(serv) ==
    <<" ", "(", "S", " ", Numeral(serv.id_servico), ",", Numeral(serv.origem), ",",
      Numeral(serv.destino), ")">>

RECURSIVE TextoServicos(_)
\* the (S ...) groups of the services printed on a line
TextoServicos(servs) ==
    IF servs = <<>> THEN <<>>
    ELSE TextoServico(Head(servs)) \o TextoServicos(Tail(servs))

\* salvar_solucao: custo_rota of a route, over the services kept by the filter
CustoDaLinha(rota, matriz, dep) == rota_custo(Unicos(rota, {}), matriz, dep)

\* salvar_solucao: the line of route number idx_rota
LinhaDaRota(idx_rota, rota, matriz, dep) ==
    LET servicos_unicos == Unicos(rota, {})
        demanda_rota == Soma(Campo(servicos_unicos, "demanda"))
        custo_rota == CustoDaLinha(rota, matriz, dep)
        total_visitas == 2 + Len(servicos_unicos)
    IN  <<Numeral(0), " ", Numeral(1), " ", Numeral(idx_rota), " ",
          Numeral(demanda_rota), " ", Numeral(custo_rota), " ", Numeral(total_visitas)>>
        \o TextoDeposito(dep) \o TextoServicos(servicos_unicos) \o TextoDeposito(dep)

\* salvar_solucao: the lines written to the file
ConteudoDoArquivo(rs, matriz, dep, tempo_execucao, tempo_solucao) ==
    <<<<Numeral(Soma([r \in 1..Len(rs) |-> CustoDaLinha(rs[r], matriz, dep)]))>>,
      <<Numeral(Len(rs))>>, <<Numeral(tempo_execucao)>>, <<Numeral(tempo_solucao)>>>>
    \o [r \in 1..Len(rs) |-> LinhaDaRota(r, rs[r], matriz, dep)]

RECURSIVE Split(_, _, _)
\* str.split: the maximal runs of symbols other than sep (corrente is the run so far)
Split(texto, sep, corrente) ==
    IF texto = <<>> THEN (IF corrente = <<>> THEN <<>> ELSE <<corrente>>)
    ELSE IF Head(texto) = sep
         THEN (IF corrente = <<>> THEN <<>> ELSE <<corrente>>) \o Split(Tail(texto), sep, <<>>)
         ELSE Split(Tail(texto), sep, Append(corrente, Head(texto)))

\* token.startswith(prefixo)
ComecaCom(token, prefixo) ==
    /\ Len(token) >= Len(prefixo)
    /\ SubSeq(token, 1, Len(prefixo)) = prefixo

\* token.split(",")[0]: the text before the first comma
AntesDaVirgula(token) ==
    IF \E n \in 1..Len(token) : token[n] = ","
    THEN SubSeq(token, 1, (CHOOSE n \in 1..Len(token) :
                              token[n] = "," /\ \A m \in 1..(n - 1) : token[m] # ",") - 1)
    ELSE token

\* ler_solucao: token.split(",")[0][3:]
IdDoToken(token) == Slice(AntesDaVirgula(token), 3, Len(AntesDaVirgula(token)))

\* ler_solucao: the ids found on one line
IdsDaLinha(linha) ==
    {IdDoToken(Split(linha, " ", <<>>)[n]) :
        n \in {m \in 1..Len(Split(linha, " ", <<>>)) :
                 ComecaCom(Split(linha, " ", <<>>)[m], <<"(", "S">>)}}

\* ler_solucao: total cost, route count and the set of service ids of a file
ler_solucao(linhas) ==
    [custo_total |-> ValorDe(linhas[1][1]),
     n_rotas |-> ValorDe(linhas[2][1]),
     servicos |-> UNION {IdsDaLinha(linhas[n]) : n \in 5..Len(linhas)}]

(* ------------------- one worker of the batch dispatch ------------------ *)
\* everything the pipeline call owns: the steps below leave it alone
execucao == <<entradas, pc, tentativa, rng, stream, relogio, rotas, demandas,
              savings_disponiveis, twoopt, incumbente, clock_inicio, clock_tentativa,
              retorno, historico, custo_etapas, outra, anterior>>

\* an exception raised inside multi_start_pipeline is caught nowhere in
\* processar_arquivo: it ends the worker and stays in the worker's Future
ErroNoPipeline ==
    /\ ultimo' = "ErroNoPipeline"
    /\ pc \in {"erro_cw", "erro_segment"}
    /\ futuro = "executando"
    /\ futuro' = "excecao"
    /\ UNCHANGED <<execucao, arquivo, lido, principal>>

\* processar_arquivo after the pipeline returned: salvar_solucao on the returned
\* routes; len(rotas) on None raises TypeError before the file is opened
Salva ==
    /\ ultimo' = "Salva"
    /\ pc = "fim"
    /\ futuro = "executando"
    /\ IF retorno[1].melhor_rotas = None
       THEN /\ futuro' = "excecao"
            /\ arquivo' = arquivo
       ELSE /\ futuro' = "concluido"
            /\ arquivo' = Some(ConteudoDoArquivo(retorno[1].melhor_rotas[1],
                                                 matriz_distancias, deposito,
                                                 retorno[1].clock_total_ciclos,
                                                 retorno[1].melhor_clock_encontrado_ciclos))
    /\ UNCHANGED <<execucao, lido, principal>>

\* comparar_pastas reads a written solution file back
LeSolucao ==
    /\ ultimo' = "LeSolucao"
    /\ arquivo # None
    /\ lido = None
    /\ lido' = Some(ler_solucao(arquivo[1]))
    /\ UNCHANGED <<execucao, futuro, arquivo, principal>>

\* main leaves the with block once the worker is done; the iterator returned by
\* executor.map is dropped, so the worker's exception is never raised in main
MainSai ==
    /\ ultimo' = "MainSai"
    /\ principal = "with"
    /\ futuro \in {"concluido", "excecao"}
    /\ principal' = "fim"
    /\ UNCHANGED <<execucao, futuro, arquivo, lido>>

\* capacities of the batch runs: 4 is below the demand 5
CapacidadesLote == {4} \cup Capacidades

\* a pipeline call inside a worker; the trial count and the list of mandatory
\* services are left open (the list handed in, or one with a service more)
InitLote ==
    /\ \E n \in 1..MaxServ :
          /\ servicos \in Catalogos(n)
          /\ matriz_distancias \in Matrizes(n)
          /\ servicos_obrigatorios \in {servicos, Append(servicos, Servico(n + 1, n, 3))}
    /\ deposito = 0
    /\ capacidade \in CapacidadesLote
    /\ k_grasp \in 1..MaxK
    /\ num_tentativas \in {0, MaxTentativas}
    /\ rng = Seed(0)
    /\ stream = <<>>
    /\ outra = OutraAusente
    /\ anterior = None
    /\ SemLote
    /\ EntradaPipeline(1)

NextLote ==
    \/ IniciaTentativa
    \/ CWPasso
    \/ CWFim
    \/ RelocateMove
    \/ RelocateFim
    \/ TwoOptMove
    \/ TwoOptRetorna
    \/ SegmentMove
    \/ SegmentFim
    \/ Avalia
    \/ Finaliza
    \/ ErroNoPipeline
    \/ Salva
    \/ LeSolucao
    \/ MainSai

SpecLote == InitLote /\ [][NextLote]_vars

(* ------------------ salvar_solucao and ler_solucao alone --------------- *)
\* services of a stored solution, and the longest stored route
MaxServSalvos == 2
MaxComprimento == 3

\* the non-empty sequences of at most comprimento elements of a sequence
SequenciasAte(elementos, comprimento) ==
    UNION {[1..m -> {elementos[n] : n \in 1..Len(elementos)}] : m \in 1..comprimento}

InitSalvar ==
    /\ \E n \in 1..MaxServSalvos :
          /\ servicos \in Catalogos(n)
          /\ matriz_distancias \in Matrizes(n)
    /\ servicos_obrigatorios = servicos
    /\ deposito = 0
    /\ capacidade = 16
    /\ k_grasp = 1
    /\ num_tentativas = 1
    /\ \E r1 \in SequenciasAte(servicos, MaxComprimento) :
          \E resto \in {<<>>} \cup {<<r2>> : r2 \in SequenciasAte(servicos,
                                                                  MaxComprimento - 1)} :
              melhor_rotas \in {None, Some(<<r1>> \o resto)}
    /\ melhor_demandas = IF melhor_rotas = None THEN None
                         ELSE Some([r \in 1..Len(melhor_rotas[1]) |->
                                       DemandaReal(melhor_rotas[1][r])])
    /\ melhor_custo = IF melhor_rotas = None THEN Inf
                      ELSE CustoTotal(melhor_rotas[1], matriz_distancias, deposito)
    /\ melhor_num_rotas = IF melhor_rotas = None THEN Inf ELSE Len(melhor_rotas[1])
    /\ melhor_clock_encontrado = IF melhor_rotas = None THEN None ELSE Some(2)
    /\ retorno = Some([melhor_rotas |-> melhor_rotas,
                       melhor_demandas |-> melhor_demandas,
                       clock_total_ciclos |-> 2,
                       melhor_clock_encontrado_ciclos |->
                           IF melhor_rotas = None THEN -1 ELSE 1])
    /\ pc = "fim"
    /\ tentativa = 1
    /\ rng = [seed |-> SementeDaTentativa(0), pos |-> 0]
    /\ stream = <<>>
    /\ relogio = 4
    /\ clock_inicio = 1
    /\ clock_tentativa = Some(2)
    /\ rotas = IF melhor_rotas = None THEN <<>> ELSE melhor_rotas[1]
    /\ demandas = IF melhor_demandas = None THEN <<>> ELSE melhor_demandas[1]
    /\ savings_disponiveis = <<>>
    /\ vnd_i = 0
    /\ melhor_rota = <<>>
    /\ scan = <<1, 2>>
    /\ historico = <<>>
    /\ custo_etapas = None
    /\ ultimo = "Finaliza"
    /\ outra = OutraAusente
    /\ anterior = None
    /\ SemLote

NextSalvar ==
    \/ Salva
    \/ LeSolucao

SpecSalvar == InitSalvar /\ [][NextSalvar]_vars

(* --------------- the simplified constructor of etapa2 ------------------ *)
\* etapa2 construir_rotas_iniciais: the id of the first service that asks for more
\* than the capacity (the ValueError), None when every service fits
PrimeiroExcesso(servs, cap) ==
    IF \E n \in 1..Len(servs) : servs[n].demanda > cap
    THEN Some(servs[CHOOSE n \in 1..Len(servs) :
                       /\ servs[n].demanda > cap
                       /\ \A m \in 1..(n - 1) : ~(servs[m].demanda > cap)].id_servico)
    ELSE None

\* etapa2 calcular_savings: the saving of the routes at positions i < j, from the
\* origin of the first service of one and the destination of the first of the other
SavingEtapa2(rs, dep, matriz, i, j) ==
    matriz[dep][rs[i][1].origem] + matriz[rs[j][1].destino][dep]
    - matriz[rs[i][1].destino][rs[j][1].origem]

\* sort(key = saving, reverse = True) is stable: equal savings keep the order in
\* which the loops produced them
AntesNaOrdemEstavel(x, y) ==
    \/ x[1] > y[1]
    \/ x[1] = y[1] /\ TuplaAntes(<<x[2], x[3]>>, <<y[2], y[3]>>)

RECURSIVE OrdenaEstavel(_)
\* the tuples of a set in the order the stable sort leaves them
OrdenaEstavel(S) ==
    IF S = {} THEN <<>>
    ELSE LET primeiro == CHOOSE x \in S : \A y \in S \ {x} : AntesNaOrdemEstavel(x, y)
         IN  <<primeiro>> \o OrdenaEstavel(S \ {primeiro})

\* etapa2 calcular_savings on the singleton routes
SavingsEtapa2(rs, dep, matriz) ==
    OrdenaEstavel({<<SavingEtapa2(rs, dep, matriz, p[1], p[2]), p[1], p[2]>> :
                     p \in {q \in (1..Len(rs)) \X (1..Len(rs)) : q[1] < q[2]}})

\* a merge test that never looks at the capacity
FundivelSemCapacidade(rs, dems, idx_i, idx_j, cap) ==
    Conjunto(Campo(rs[idx_i], "id_servico")) \cap Conjunto(Campo(rs[idx_j], "id_servico")) = {}

\* tentar_fundir_rotas returns True: the joint demand fits and the routes share no id
Fundivel(rs, dems, idx_i, idx_j, cap) ==
    /\ ~(dems[idx_i] + dems[idx_j] > cap)
    /\ Conjunto(Campo(rs[idx_i], "id_servico")) \cap Conjunto(Campo(rs[idx_j], "id_servico")) = {}

\* algoritmo_clarke_wright up to its loop: construir_rotas_iniciais (which raises on
\* a demand above the capacity) and calcular_savings
ConstroiEtapa2 ==
    /\ ultimo' = "ConstroiEtapa2"
    /\ pc = "e2_inicio"
    /\ IF PrimeiroExcesso(servicos, capacidade) # None
       THEN /\ pc' = "e2_erro"
            /\ UNCHANGED <<rotas, demandas, savings_disponiveis>>
       ELSE /\ pc' = "e2_fusao"
            /\ rotas' = [n \in 1..Len(servicos) |-> <<servicos[n]>>]
            /\ demandas' = [n \in 1..Len(servicos) |-> servicos[n].demanda]
            /\ savings_disponiveis' =
                   SavingsEtapa2([n \in 1..Len(servicos) |-> <<servicos[n]>>],
                                 deposito, matriz_distancias)
    /\ UNCHANGED <<entradas, fora, tentativa, rng, stream, relogio, twoopt, incumbente,
                   clock_inicio, clock_tentativa, retorno, historico, custo_etapas>>

\* one iteration of for s, i, j in savings, with tentar_fundir_rotas
FundeEtapa2 ==
    /\ ultimo' = "FundeEtapa2"
    /\ pc = "e2_fusao"
    /\ savings_disponiveis # <<>>
    /\ \E sv \in {Head(savings_disponiveis)} :
          IF /\ rotas[sv[2]] # <<>>
             /\ rotas[sv[3]] # <<>>
             /\ Fundivel(rotas, demandas, sv[2], sv[3], capacidade)
          THEN /\ rotas' = [rotas EXCEPT ![sv[2]] = rotas[sv[2]] \o rotas[sv[3]],
                                         ![sv[3]] = <<>>]
               /\ demandas' = [demandas EXCEPT ![sv[2]] = demandas[sv[2]] + demandas[sv[3]],
                                               ![sv[3]] = 0]
          ELSE UNCHANGED <<rotas, demandas>>
    /\ savings_disponiveis' = Tail(savings_disponiveis)
    /\ UNCHANGED <<entradas, fora, pc, tentativa, rng, stream, relogio, twoopt, incumbente,
                   clock_inicio, clock_tentativa, retorno, historico, custo_etapas>>

\* the end of algoritmo_clarke_wright: the empty routes go and the routes are returned
DevolveEtapa2 ==
    /\ ultimo' = "DevolveEtapa2"
    /\ pc = "e2_fusao"
    /\ savings_disponiveis = <<>>
    /\ rotas' = NaoVazias(rotas)
    /\ retorno' = Some(NaoVazias(rotas))
    /\ pc' = "e2_fim"
    /\ UNCHANGED <<entradas, fora, tentativa, rng, stream, relogio, demandas,
                   savings_disponiveis, twoopt, incumbente, clock_inicio,
                   clock_tentativa, historico, custo_etapas>>

\* a call of algoritmo_clarke_wright on a catalog of required vertices, or of
\* vertices and edges, with a capacity that may be below a demand
InitEtapa2 ==
    /\ \E n \in 0..MaxServ :
          /\ servicos \in Catalogos(n) \cup CatalogosMistos(n)
          /\ matriz_distancias \in MatrizesTwoOpt(n)
    /\ servicos_obrigatorios = servicos
    /\ deposito = 0
    /\ capacidade \in CapacidadesLote
    /\ k_grasp = 1
    /\ num_tentativas = 1
    /\ pc = "e2_inicio"
    /\ tentativa = 0
    /\ rng = Seed(0)
    /\ stream = <<>>
    /\ relogio = 1
    /\ clock_inicio = 1
    /\ clock_tentativa = None
    /\ rotas = <<>>
    /\ demandas = <<>>
    /\ savings_disponiveis = <<>>
    /\ vnd_i = 0
    /\ melhor_rota = <<>>
    /\ scan = <<1, 2>>
    /\ melhor_custo = Inf
    /\ melhor_num_rotas = Inf
    /\ melhor_rotas = None
    /\ melhor_demandas = None
    /\ melhor_clock_encontrado = None
    /\ retorno = None
    /\ historico = <<>>
    /\ custo_etapas = None
    /\ ultimo = "entrada"
    /\ outra = OutraAusente
    /\ anterior = None
    /\ SemLote

NextEtapa2 ==
    \/ ConstroiEtapa2
    \/ FundeEtapa2
    \/ DevolveEtapa2

SpecEtapa2 == InitEtapa2 /\ [][NextEtapa2]_vars

(* ============================== claims ================================ *)
\* the stages of a trial that run on the route set returned by the construction
AposConstrucao == pc \in {"relocate", "two_opt", "segment", "avalia"}

\* the route set of the trial as it stands, two_opt's working copy put in its place
RotasCorrentes ==
    IF pc = "two_opt" THEN [rotas EXCEPT ![vnd_i] = melhor_rota] ELSE rotas

\* every route of rs carries at most the vehicle capacity
DentroDaCapacidade(rs) == \A r \in 1..Len(rs) : DemandaReal(rs[r]) <= capacidade

\* the bookkeeping list ds is the list of the true demands of rs
DemandasEmDia(rs, ds) ==
    /\ Len(ds) = Len(rs)
    /\ \A r \in 1..Len(rs) : ds[r] = DemandaReal(rs[r])

\* every catalog id is in exactly one route of rs, exactly once
CobreCatalogo(rs) ==
    /\ Len(IdsNasRotas(rs)) = Len(servicos)
    /\ Conjunto(IdsNasRotas(rs)) = Conjunto(Campo(servicos, "id_servico"))

\* the catalog of the scenario: three services asking for 3, 4 and 5, capacity 8
Cenario345 ==
    /\ Campo(servicos, "demanda") = <<3, 4, 5>>
    /\ capacidade = 8

\* C1: after the construction and after every accepted relocate or segment_relocate
\* move, and in every solution stored as incumbent, each route's true total demand is
\* at most the capacity (every service of the catalogs fits the vehicle on its own);
\* with demands 3, 4, 5 and capacity 8 the services asking for 4 and 5 never share a route.
C1_CapacidadeRespeitada ==
    /\ AposConstrucao => DentroDaCapacidade(RotasCorrentes)
    /\ melhor_rotas # None => DentroDaCapacidade(melhor_rotas[1])
    /\ Cenario345 /\ AposConstrucao =>
          \A r \in 1..Len(RotasCorrentes) :
              ~({4, 5} \subseteq Conjunto(Campo(RotasCorrentes[r], "demanda")))

\* C2: whenever a stage has returned its pair (rotas, demandas), and in the incumbent
\* (melhor_rotas, melhor_demandas), the two lists have the same length and every
\* demandas[r] is the sum of the demands of the services of rotas[r].
C2_DemandasSincronizadas ==
    /\ pc \in {"two_opt", "segment", "avalia"} \/ (pc = "relocate" /\ ultimo = "CWFim")
          => DemandasEmDia(rotas, demandas)
    /\ melhor_rotas # None => DemandasEmDia(melhor_rotas[1], melhor_demandas[1])

\* C3: throughout clarke_wright_grasp and in the route set it returns, every catalog id
\* is in exactly one route exactly once, and the 'services lost' error is never raised.
C3_ConstrucaoCobre ==
    /\ pc # "erro_cw"
    /\ pc = "cw" \/ ultimo = "CWFim" => CobreCatalogo(rotas)

\* C3 witness: the construction has returned a route set in which routes were merged.
C3_Witness ==
    /\ ultimo = "CWFim"
    /\ pc = "relocate"
    /\ Len(rotas) < Len(servicos)
    /\ Len(servicos) >= 3

\* C4: relocate, two_opt and segment_relocate keep the coverage: after every accepted
\* move and on return every catalog id is in exactly one route exactly once, and the
\* coverage guard of segment_relocate never fires.
C4_BuscaLocalCobre ==
    /\ pc # "erro_segment"
    /\ AposConstrucao => CobreCatalogo(RotasCorrentes)

\* C4 witness: segment_relocate has just moved a block from one route to another and
\* several routes remain.
C4_Witness ==
    /\ ultimo = "SegmentMove"
    /\ pc = "segment"
    /\ Len(rotas) >= 2

\* C5: during clarke_wright_grasp and in the route set it returns, every route's true
\* total demand is at most the capacity: no merge overfills a route.
C5_ConstrucaoViavel ==
    pc = "cw" \/ ultimo = "CWFim" => DentroDaCapacidade(rotas)

\* C5 witness: with capacity 8, the construction returned a merged route and a
\* route left alone, the merge of the two having been turned down.
C5_Witness ==
    /\ ultimo = "CWFim"
    /\ capacidade = 8
    /\ Len(rotas) = 2
    /\ Len(servicos) = 3

\* the draws the running trial has made so far
SorteiosFeitos ==
    Len(calcular_savings(servicos, deposito, matriz_distancias)) - Len(savings_disponiveis)

\* the index the next draw yields when the run has the generator to itself
EscolhaSozinha ==
    stream[<<SementeDaTentativa(tentativa), SorteiosFeitos>>]
        % Len(TopK(savings_disponiveis, k_grasp))

\* C6: with another run on the worker pool, every draw of clarke_wright_grasp picks
\* the saving it picks when the run is alone: the one at the generator's output for
\* the trial's own seed and the trial's own count of draws.
C6_SorteiosProprios ==
    [][pc = "cw" /\ Len(savings_disponiveis') < Len(savings_disponiveis)
          => savings_disponiveis' =
                 RemovePrimeiro(savings_disponiveis,
                                TopK(savings_disponiveis, k_grasp)[EscolhaSozinha + 1])]_vars

\* C7: a second call with the same arguments ends with the routes, the total cost and
\* the route count of the first, whatever the clock and the generator were at its start.
C7_MesmoResultado ==
    pc = "fim" /\ anterior # None
        => anterior[1] = [melhor_rotas |-> melhor_rotas, melhor_custo |-> melhor_custo,
                          melhor_num_rotas |-> melhor_num_rotas]

\* C7 witness: the second call has returned a solution after two trials of different
\* cost, its clock readings being later than those of the first call.
C7_Witness ==
    /\ pc = "fim"
    /\ anterior # None
    /\ melhor_rotas # None
    /\ historico[1].custo # historico[2].custo
    /\ clock_inicio > 4

\* the trials of the run that passed the validation
Validas == {n \in 1..Len(historico) : historico[n].valida}

\* trial a is at least as good as trial b in (cost, route count) order
NaoPior(a, b) ==
    \/ historico[a].custo < historico[b].custo
    \/ historico[a].custo = historico[b].custo
          /\ historico[a].num_rotas <= historico[b].num_rotas

\* the valid trial that is minimal in (cost, route count), the earliest of those tied
Vencedora ==
    CHOOSE n \in Validas :
        /\ \A m \in Validas : NaoPior(n, m)
        /\ \A m \in Validas : m < n => ~NaoPior(m, n)

\* C8: at every point of the run the incumbent is the valid trial so far that is
\* minimal in (total cost, route count) order, the earliest among those tied on both;
\* there is no incumbent exactly when no trial was valid.
C8_IncumbenteMinimo ==
    IF Validas = {}
    THEN melhor_rotas = None /\ melhor_custo = Inf /\ melhor_num_rotas = Inf
    ELSE /\ melhor_custo = historico[Vencedora].custo
         /\ melhor_num_rotas = historico[Vencedora].num_rotas
         /\ melhor_clock_encontrado = Some(historico[Vencedora].clock)
         /\ melhor_rotas # None
         /\ CustoTotal(melhor_rotas[1], matriz_distancias, deposito) = melhor_custo
         /\ Len(melhor_rotas[1]) = melhor_num_rotas

\* C8 witness: the run is over and its second trial, tied with the first on cost and
\* with fewer routes, replaced it.
C8_Witness ==
    /\ pc = "fim"
    /\ Len(historico) = 2
    /\ historico[2].custo = historico[1].custo
    /\ historico[2].num_rotas < historico[1].num_rotas
    /\ melhor_clock_encontrado = Some(historico[2].clock)

\* the total cost of the trial's route set as it stands
CustoCorrente == CustoTotal(RotasCorrentes, matriz_distancias, deposito)

\* C9: inside a trial no step of relocate, two_opt or segment_relocate raises the total
\* cost, and when the trial is evaluated cost after segment_relocate <= cost after
\* vnd <= cost after the construction.
C9_CustoNaoAumenta ==
    /\ [](pc = "avalia" =>
             /\ CustoTotal(rotas, matriz_distancias, deposito) <= custo_etapas[1].vnd
             /\ custo_etapas[1].vnd <= custo_etapas[1].construcao)
    /\ [][AposConstrucao /\ AposConstrucao' => CustoCorrente' <= CustoCorrente]_vars

\* C9 witness: a trial is evaluated in which segment_relocate lowered the cost.
C9_Witness ==
    /\ pc = "avalia"
    /\ CustoTotal(rotas, matriz_distancias, deposito) < custo_etapas[1].vnd

\* C10: the route two_opt returns is a fixed point: no pair of its scan reverses a
\* sub-sequence into a cheaper route.
C10_PontoFixo ==
    ultimo = "TwoOptRetorna" /\ pc = "segment"
        => TwoOptMovs(rotas[1], <<1, 2>>, matriz_distancias, deposito) = {}

\* the route cost as specified: service costs, depot to the origin of the first
\* service, each destination to the origin of the next, last destination to the depot
CustoEspecificado(rota, matriz, dep) ==
    IF rota = <<>> THEN 0
    ELSE Soma(Campo(rota, "custo_servico"))
         + matriz[dep][rota[1].origem]
         + Soma([n \in 1..(Len(rota) - 1) |-> matriz[rota[n].destino][rota[n + 1].origem]])
         + matriz[rota[Len(rota)].destino][dep]

\* C11: the cost rota_custo computes for a route, here the route two_opt returned and
\* vnd's total for it, is the specified cost: the legs run from the depot to the first
\* origin and from each destination to the next origin; the empty route costs 0.
C11_CustoDaRota ==
    ultimo = "TwoOptRetorna" /\ pc = "segment"
        => /\ rota_custo(rotas[1], matriz_distancias, deposito)
                = CustoEspecificado(rotas[1], matriz_distancias, deposito)
           /\ custo_etapas[1].vnd = CustoEspecificado(rotas[1], matriz_distancias, deposito)

\* some service asks for more than a vehicle holds
ExcedeCapacidade == \E n \in 1..Len(servicos) : servicos[n].demanda > capacidade

\* C12: when some service's demand exceeds the vehicle capacity the run aborts before
\* any construction: no route is built, no trial is run, nothing is returned or written
C12_AbortaAntesDeConstruir ==
    ExcedeCapacidade
        => /\ rotas = <<>>
           /\ clock_tentativa = None
           /\ historico = <<>>
           /\ (retorno # None => retorno[1].melhor_rotas = None)
           /\ arquivo = None

\* a coverage exception of clarke_wright_grasp or segment_relocate was raised
ExcecaoDeCobertura == pc \in {"erro_cw", "erro_segment"}

Desclassificadas == {n \in 1..Len(historico) : ~historico[n].valida}

\* C14: a trial whose final route set fails coverage validation against
\* servicos_obrigatorios is only skipped: no exception leaves multi_start_pipeline,
\* the incumbent is not taken from it and the loop goes on to the next trial
C14_TentativaDesclassificada ==
    /\ pc # "erro_segment"
    /\ \A n \in Desclassificadas : melhor_clock_encontrado # Some(historico[n].clock)
    /\ servicos_obrigatorios # servicos /\ pc = "fim"
           => Len(historico) = num_tentativas /\ melhor_rotas = None

\* the pipeline returned without a solution
SemSolucao == retorno # None /\ retorno[1].melhor_rotas = None

\* C15: when no trial yields a valid solution the pipeline returns routes None with
\* best-found offset -1, and the instance run then ends without an error and
\* without an output file
C15_SemSolucaoSemErro ==
    /\ pc = "fim" /\ melhor_rotas = None
          => SemSolucao /\ retorno[1].melhor_clock_encontrado_ciclos = -1
    /\ SemSolucao => futuro # "excecao" /\ arquivo = None

\* route i lost a block of k services and route j gained k services at its end
BlocoMovido(antes, depois, i, j, k) ==
    /\ Len(depois[i]) = Len(antes[i]) - k
    /\ Len(depois[j]) = Len(antes[j]) + k
    /\ SubSeq(depois[j], 1, Len(antes[j])) = antes[j]
    /\ \A r \in 1..Len(antes) : r \notin {i, j} => depois[r] = antes[r]

\* C16: every accepted move of segment_relocate takes a block of between 1 and
\* |source| - 1 services, so no route disappears and source and target are non-empty
C16_BlocoProprio ==
    [][ultimo' = "SegmentMove"
          => /\ Len(rotas') = Len(rotas)
             /\ \A r \in 1..Len(rotas') : rotas'[r] # <<>>
             /\ \E i, j \in 1..Len(rotas) :
                   /\ i # j
                   /\ \E k \in 1..(Len(rotas[i]) - 1) : BlocoMovido(rotas, rotas', i, j, k)]_vars

\* a block has just been moved out of a route that keeps at least one service
C16_Witness ==
    /\ ultimo = "SegmentMove"
    /\ \E r \in 1..Len(rotas) : Len(rotas[r]) >= 2
    /\ \A r \in 1..Len(rotas) : rotas[r] # <<>>

\* the solution handed to salvar_solucao has non-empty routes and no id twice
SolucaoRegular ==
    /\ retorno # None /\ retorno[1].melhor_rotas # None
    /\ \A r \in 1..Len(retorno[1].melhor_rotas[1]) : retorno[1].melhor_rotas[1][r] # <<>>
    /\ Len(IdsNasRotas(retorno[1].melhor_rotas[1]))
           = Cardinality(Conjunto(IdsNasRotas(retorno[1].melhor_rotas[1])))

\* C17: writing a solution with salvar_solucao and reading the file with ler_solucao
\* gives back its total cost, its route count and exactly its service ids
C17_IdaEVolta ==
    SolucaoRegular /\ lido # None
        => /\ lido[1].custo_total = CustoTotal(retorno[1].melhor_rotas[1],
                                               matriz_distancias, deposito)
           /\ lido[1].n_rotas = Len(retorno[1].melhor_rotas[1])
           /\ lido[1].servicos = {<<Numeral(id)>> :
                                      id \in Conjunto(IdsNasRotas(retorno[1].melhor_rotas[1]))}

\* the ids of a route in order of first occurrence, each once
IdsDistintos(rota) ==
    [n \in 1..Cardinality(Conjunto(Campo(rota, "id_servico"))) |->
        Campo(rota, "id_servico")[
            CHOOSE p \in 1..Len(rota) :
                /\ \A q \in 1..(p - 1) : rota[q].id_servico # rota[p].id_servico
                /\ Cardinality({rota[q].id_servico : q \in 1..p}) = n]]

\* the service of a route that carries an id
ServicoDoId(rota, id) == rota[CHOOSE p \in 1..Len(rota) : rota[p].id_servico = id]

\* the (S ...) groups of a written line: the numerals that follow "(", "S", " "
IdsEscritos(linha) ==
    [n \in 1..Cardinality({p \in 1..Len(linha) : linha[p] = "S"}) |->
        linha[(CHOOSE p \in 1..Len(linha) :
                  /\ linha[p] = "S"
                  /\ Cardinality({q \in 1..p : linha[q] = "S"}) = n) + 2]]

\* C18: the line of every route handed to salvar_solucao, repeats included, lists each
\* distinct id once in order of first occurrence, with visitCount 2 + the number of
\* distinct ids, and demand and cost counting each distinct service once
C18_LinhaSemRepetidos ==
    arquivo # None
        => \A r \in 1..Len(retorno[1].melhor_rotas[1]) :
              LET rota == retorno[1].melhor_rotas[1][r]
                  linha == arquivo[1][4 + r]
                  distintos == [n \in 1..Len(IdsDistintos(rota)) |->
                                   ServicoDoId(rota, IdsDistintos(rota)[n])]
              IN  /\ IdsEscritos(linha) = [n \in 1..Len(distintos) |->
                                              Numeral(distintos[n].id_servico)]
                  /\ linha[11] = Numeral(2 + Len(distintos))
                  /\ linha[7] = Numeral(Soma(Campo(distintos, "demanda")))
                  /\ linha[9] = Numeral(rota_custo(distintos, matriz_distancias, deposito))

\* a file was written for a solution in which some route repeats a service id
C18_Witness ==
    /\ arquivo # None
    /\ \E r \in 1..Len(retorno[1].melhor_rotas[1]) :
          Len(retorno[1].melhor_rotas[1][r])
              > Cardinality(Conjunto(Campo(retorno[1].melhor_rotas[1][r], "id_servico")))

\* C19: two_opt called on a route of 0, 1 or 2 services returns at once, and the
\* route it returns is the route it was given, whatever the distance matrix
C19_RotaCurtaIntacta ==
    [][pc = "two_opt" /\ Len(rotas[vnd_i]) < 3
          => /\ ultimo' = "TwoOptRetorna"
             /\ rotas'[vnd_i] = rotas[vnd_i]
             /\ rotas' = rotas]_vars

\* two_opt has returned a route of two services
C19_Witness ==
    /\ ultimo = "TwoOptRetorna"
    /\ pc = "segment"
    /\ Len(rotas) = 1
    /\ Len(rotas[1]) = 2

\* a route set some stage has returned is the trial's current one: the construction
\* has just returned, or the trial is past relocate
RotasDevolvidas ==
    \/ pc = "relocate" /\ ultimo = "CWFim"
    \/ pc \in {"two_opt", "segment", "avalia"}

\* no route of rs is empty
SemRotaVazia(rs) == \A r \in 1..Len(rs) : rs[r] # <<>>

\* C20: every route of the route sets returned by clarke_wright_grasp, relocate, vnd
\* and segment_relocate, and of the incumbent returned by multi_start_pipeline,
\* holds at least one service
C20_SemRotasVazias ==
    /\ RotasDevolvidas => SemRotaVazia(RotasCorrentes)
    /\ melhor_rotas # None => SemRotaVazia(melhor_rotas[1])
    /\ retorno # None /\ retorno[1].melhor_rotas # None
          => SemRotaVazia(retorno[1].melhor_rotas[1])

\* the pipeline returned an incumbent with fewer routes than services: routes were
\* emptied by merges on the way and pruned
C20_Witness ==
    /\ pc = "fim"
    /\ retorno[1].melhor_rotas # None
    /\ Len(retorno[1].melhor_rotas[1]) < Len(servicos)

\* n(n-1)/2: the number of unordered pairs of services
NumPares == (Len(servicos) * (Len(servicos) - 1)) \div 2

\* the pairs <<i, j>> of the savings still available
ParesDisponiveis == {<<savings_disponiveis[n][2], savings_disponiveis[n][3]>> :
                        n \in 1..Len(savings_disponiveis)}

\* the iteration from disp to disp2 took one saving out, it stood among the first k
\* of disp and fewer than k savings of disp were larger
EscolhidoNoTopo(disp, disp2, k) ==
    \E p \in 1..Min(k, Len(disp)) :
        /\ disp2 = SubSeq(disp, 1, p - 1) \o SubSeq(disp, p + 1, Len(disp))
        /\ Cardinality({n \in 1..Len(disp) : disp[n][1] > disp[p][1]}) < k

\* C21: the merge loop of clarke_wright_grasp makes exactly n(n-1)/2 iterations and
\* stops; every iteration takes the chosen pair out of the pool, merge or no merge,
\* no pair is chosen twice, and the chosen pair is one of the k best still available
C21_CadaParUmaVez ==
    /\ [](/\ pc = "cw" => /\ rng.pos + Len(savings_disponiveis) = NumPares
                          /\ Cardinality(ParesDisponiveis) = Len(savings_disponiveis)
          /\ pc \in {"relocate", "two_opt", "segment", "avalia"}
                => rng.pos = NumPares /\ savings_disponiveis = <<>>)
    /\ [][ultimo' = "CWPasso"
             => EscolhidoNoTopo(savings_disponiveis, savings_disponiveis', k_grasp)]_vars

\* the loop has drawn at least once with k = 2 and the best pair is still available:
\* some draw took the second best
C21_Witness ==
    /\ pc = "cw"
    /\ k_grasp = 2
    /\ rng.pos >= 1
    /\ savings_disponiveis # <<>>
    /\ savings_disponiveis[1] = calcular_savings(servicos, deposito, matriz_distancias)[1]

\* C22: relocate and segment_relocate always terminate: every accepted move strictly
\* lowers the total cost, and each loop comes to a scan without a move and returns
C22_BuscaTermina ==
    /\ [][ultimo' \in {"RelocateMove", "SegmentMove"}
             => CustoTotal(rotas', matriz_distancias, deposito)
                    < CustoTotal(rotas, matriz_distancias, deposito)]_vars
    /\ (pc = "relocate") ~> (pc = "two_opt" /\ ultimo = "RelocateFim")
    /\ (pc = "segment") ~> (pc = "avalia" /\ ultimo = "SegmentFim")

\* relocate has returned after accepting at least one move
C22_Witness ==
    /\ ultimo = "RelocateFim"
    /\ CustoTotal(rotas, matriz_distancias, deposito) < custo_etapas[1].construcao

\* moving service idx of route i to the end of route j keeps the true demand of
\* route j within the capacity, leaves route i non-empty and lowers the cost of the two
MovimentoQueMelhora(rs, i, j, idx) ==
    /\ i # j
    /\ DemandaReal(rs[j]) + rs[i][idx].demanda <= capacidade
    /\ Len(rs[i]) >= 2
    /\ rota_custo(Slice(rs[i], 0, idx - 1) \o Slice(rs[i], idx, Len(rs[i])),
                  matriz_distancias, deposito)
         + rota_custo(Append(rs[j], rs[i][idx]), matriz_distancias, deposito)
       < rota_custo(rs[i], matriz_distancias, deposito)
         + rota_custo(rs[j], matriz_distancias, deposito)

\* C23: given routes without an empty one and the true demands, the route set relocate
\* returns has no source route, target route and service whose move to the end of
\* the target fits the capacity, leaves the source non-empty and lowers the cost
C23_RelocatePontoFixo ==
    ultimo = "RelocateFim"
        => \A i, j \in 1..Len(rotas) : \A idx \in 1..Len(rotas[i]) :
              ~MovimentoQueMelhora(rotas, i, j, idx)

\* relocate has returned two routes or more after moving a service, and a move that
\* would lower the cost is left out because the target is full
C23_Witness ==
    /\ ultimo = "RelocateFim"
    /\ Len(rotas) >= 2
    /\ CustoTotal(rotas, matriz_distancias, deposito) < custo_etapas[1].construcao
    /\ \E i, j \in 1..Len(rotas) : \E idx \in 1..Len(rotas[i]) :
          /\ i # j
          /\ Len(rotas[i]) >= 2
          /\ DemandaReal(rotas[j]) + rotas[i][idx].demanda > capacidade

\* C24: algoritmo_clarke_wright of etapa2 raises from construir_rotas_iniciais, before
\* any merge and without returning routes, when a demand exceeds the capacity;
\* otherwise the routes it returns are non-empty, cover every service exactly once
\* and each carries at most the capacity
C24_Etapa2RejeitaOuCobre ==
    /\ ExcedeCapacidade => /\ pc \in {"e2_inicio", "e2_erro"}
                           /\ rotas = <<>>
                           /\ retorno = None
    /\ pc = "e2_erro" => ExcedeCapacidade
    /\ pc = "e2_fim" => /\ SemRotaVazia(retorno[1])
                        /\ ~PerdidosOuDuplicados(servicos, retorno[1])
                        /\ \A r \in 1..Len(retorno[1]) :
                              DemandaReal(retorno[1][r]) <= capacidade

\* the constructor returned merged routes next to a merge the capacity turned down
C24_Witness ==
    /\ pc = "e2_fim"
    /\ Len(retorno[1]) >= 2
    /\ Len(retorno[1]) < Len(servicos)
    /\ DemandaReal(Concatena(retorno[1])) > capacidade

\* the steps of relocate, of vnd's two_opt and of segment_relocate
PassosDaBusca == {"RelocateMove", "RelocateFim", "TwoOptMove", "TwoOptRetorna",
                  "SegmentMove", "SegmentFim"}

RegistrosNasRotas(rs) == Conjunto(Concatena(rs))

\* C26: once a trial's routes and demands are stored as incumbent, nothing but a
\* later selection replaces them: no step of a later trial changes the stored routes,
\* their order, the stored demands or a service record, a selection stores the
\* trial's own final routes and demands, and the pipeline returns what is stored
C26_IncumbenteIsolado ==
    /\ [][melhor_rotas # None /\ ultimo' # "Avalia"
             => melhor_rotas' = melhor_rotas /\ melhor_demandas' = melhor_demandas]_vars
    /\ [][ultimo' = "Avalia" /\ melhor_rotas' # melhor_rotas
             => melhor_rotas' = Some(rotas) /\ melhor_demandas' = Some(demandas)]_vars
    /\ [][servicos' = servicos]_vars
    /\ [](melhor_rotas # None
             => RegistrosNasRotas(melhor_rotas[1]) = Conjunto(servicos))
    /\ [](pc = "fim" => /\ retorno[1].melhor_rotas = melhor_rotas
                        /\ retorno[1].melhor_demandas = melhor_demandas)

\* a later trial is moving services between its routes while an incumbent with
\* other routes is stored
C26_Witness ==
    /\ tentativa >= 1
    /\ ultimo \in {"RelocateMove", "SegmentMove", "TwoOptMove"}
    /\ melhor_rotas # None
    /\ rotas # melhor_rotas[1]

====
